---- MODULE Spec2Model ----
(***************************************************************************)
(* Model of the tRNA charging kinetics pipeline of triplicate_aa_plot.py:  *)
(* read_data (record parser), Reaction.calc_conc (concentration            *)
(* converter), fit / Reaction.fit_plateau (kinetics fitter),               *)
(* plot_multiple_fit (replicate aggregator and figure sink) and main.      *)
(*                                                                         *)
(* Floats are modelled as exact fractions [n, d]; d = 0 encodes the IEEE   *)
(* specials numpy produces on a division by zero: 1/0 is inf, -1/0 is      *)
(* -inf, 0/0 is nan.                                                       *)
(***************************************************************************)
EXTENDS Integers, Sequences, FiniteSets

VARIABLES
    pc,              \* where main is: "read_data", "calc_conc", "reshape",
                     \* "average", "fit", "savefig_eps", "savefig_svg", "done", "aborted"
    file,            \* the lines read_data has consumed so far (their token lists)
    bound,           \* read_data: whether time_array / cpm_array are bound yet
    time_array,      \* read_data: time accumulation buffer
    cpm_array,       \* read_data: signal accumulation buffer
    aa_conc,         \* read_data: most recent total amino-acid concentration
    rxns,            \* the list of Reaction objects
    idx,             \* main: position of the loop "for rxn in rxns"
    conc_matrix,     \* plot_multiple_fit: M x N concentration matrix
    ave_conc_array,  \* plot_multiple_fit: mean per time point
    std_conc_array,  \* plot_multiple_fit: standard deviation per time point
    ave_pars,        \* plot_multiple_fit: the aggregate fit
    err,             \* the uncaught exception that ended the run, or "none"
    errAt,           \* the function (or step) that raised it, or "none"
    figs,            \* the figure files written so far
    convWrites,      \* per Reaction: writes of normalized_cpm_array / conc_array
    fitWrites        \* per Reaction: writes of pars / r2

vars == <<pc, file, bound, time_array, cpm_array, aa_conc, rxns, idx, conc_matrix,
          ave_conc_array, std_conc_array, ave_pars, err, errAt, figs,
          convWrites, fitWrites>>

\* Longest input file (number of lines) the model reads.
MaxLines == 6

\* Number of parameters of fitfunc (p0, p1).
NumParams == 2

-----------------------------------------------------------------------------
(* Float arithmetic *)

Abs(x) == IF x < 0 THEN -x ELSE x

Sgn(x) == IF x < 0 THEN -1 ELSE IF x > 0 THEN 1 ELSE 0

RECURSIVE GCD(_, _)
GCD(a, b) == IF b = 0 THEN a ELSE GCD(b, a % b)

Norm(n, d) ==
    IF d = 0 THEN [n |-> Sgn(n), d |-> 0]
    ELSE LET g == GCD(Abs(n), Abs(d))
             s == IF d < 0 THEN -1 ELSE 1
         IN  [n |-> (s * n) \div g, d |-> (s * d) \div g]

R(k) == [n |-> k, d |-> 1]

NaN == [n |-> 0, d |-> 0]

IsFinite(a) == a.d # 0

FNeg(a) == [n |-> -a.n, d |-> a.d]

FAdd(a, b) ==
    IF a.d = 0 /\ b.d = 0
    THEN (IF a.n = b.n THEN a ELSE NaN)
    ELSE Norm(a.n * b.d + b.n * a.d, a.d * b.d)

FSub(a, b) == FAdd(a, FNeg(b))

FMul(a, b) == Norm(a.n * b.n, a.d * b.d)

FInv(b) == IF b.n < 0 THEN Norm(-b.d, -b.n) ELSE Norm(b.d, b.n)

FDiv(a, b) == FMul(a, FInv(b))

RECURSIVE FSum(_)
FSum(s) == IF s = <<>> THEN R(0) ELSE FAdd(Head(s), FSum(Tail(s)))

\* numpy: array - scalar, array / scalar, array * scalar are elementwise.
ArrSub(arr, x) == [i \in 1..Len(arr) |-> FSub(arr[i], x)]
ArrDiv(arr, x) == [i \in 1..Len(arr) |-> FDiv(arr[i], x)]
ArrMul(arr, x) == [i \in 1..Len(arr) |-> FMul(arr[i], x)]

-----------------------------------------------------------------------------
(* Input lines *)

\* float(token): the tokens the model feeds and the value Python parses them
\* to; any other token raises ValueError.
IsNumeric(tok) == tok \in {"0", "0.0", "1", "2", "2.0", "3", "5.0"}

Float(tok) ==
    CASE tok = "0"   -> R(0)
      [] tok = "0.0" -> R(0)
      [] tok = "1"   -> R(1)
      [] tok = "2"   -> R(2)
      [] tok = "2.0" -> R(2)
      [] tok = "3"   -> R(3)
      [] tok = "5.0" -> R(5)

\* line.split() of the lines the model feeds: the token lists.
Lines ==
    { <<"conc", "1">>, <<"conc", "2.0">>,
      <<"sa", "2">>, <<"sa", "0">>,
      <<"0.0", "1">>, <<"5.0", "3">>,
      <<>>, <<"sa">>, <<"5.0", "x">>, <<"conc", "x">> }

-----------------------------------------------------------------------------
(* Reaction *)

NoFit == [fitted |-> FALSE, conc |-> <<>>, time |-> <<>>]

\* Reaction.__init__
Reaction(t_arr, c_arr, sa, aa) ==
    [ cpm_array            |-> c_arr,
      time_array           |-> t_arr,
      sa                   |-> sa,
      pars                 |-> NoFit,
      r2                   |-> NoFit,
      normalized_cpm_array |-> <<>>,
      aa_conc              |-> aa,
      conc_array           |-> <<>> ]

\* Reaction.calc_conc on a Reaction with at least one sample.
calc_conc_inplace(rxn) ==
    LET cpm0 == rxn.cpm_array[1]
        norm == ArrSub(rxn.cpm_array, cpm0)
    IN  [rxn EXCEPT !.cpm_array = norm,
                    !.normalized_cpm_array = norm,
                    !.conc_array = ArrMul(ArrDiv(norm, rxn.sa), rxn.aa_conc)]

calc_conc_from_normalized(rxn) ==
    LET cpm0 == rxn.cpm_array[1]
        base == IF rxn.normalized_cpm_array = <<>>
                THEN rxn.cpm_array ELSE rxn.normalized_cpm_array
        norm == ArrSub(base, cpm0)
    IN  [rxn EXCEPT !.normalized_cpm_array = norm,
                    !.conc_array = ArrMul(ArrDiv(norm, rxn.sa), rxn.aa_conc)]

calc_conc_nobaseline(rxn) ==
    LET norm == rxn.cpm_array
    IN  [rxn EXCEPT !.normalized_cpm_array = norm,
                    !.conc_array = ArrMul(ArrDiv(norm, rxn.sa), rxn.aa_conc)]

calc_conc(rxn) ==
    LET cpm0 == rxn.cpm_array[1]
        norm == ArrSub(rxn.cpm_array, cpm0)
    IN  [rxn EXCEPT !.normalized_cpm_array = norm,
                    !.conc_array = ArrMul(ArrDiv(norm, rxn.sa), rxn.aa_conc)]

-----------------------------------------------------------------------------
(* read_data *)

\* The parser's locals: time_array and cpm_array are unbound names until the
\* first "conc" line (bound = FALSE); err is the exception a line raised.
ParserInit ==
    [ bound      |-> FALSE,
      time_array |-> <<>>,
      cpm_array  |-> <<>>,
      aa_conc    |-> R(0),
      rxns       |-> <<>>,
      err        |-> "none" ]

Raise(st, e) == [st EXCEPT !.err = e]

\* if time == "conc": new buffers, then aa_conc = float(cpm).
OnConc_noreset(st, cpm) ==
    IF ~IsNumeric(cpm)
    THEN Raise([st EXCEPT !.bound = TRUE], "ValueError")
    ELSE [st EXCEPT !.bound = TRUE, !.aa_conc = Float(cpm)]

OnConc(st, cpm) ==
    LET fresh == [st EXCEPT !.bound = TRUE, !.time_array = <<>>, !.cpm_array = <<>>]
    IN  IF ~IsNumeric(cpm)
        THEN Raise(fresh, "ValueError")
        ELSE [fresh EXCEPT !.aa_conc = Float(cpm)]

\* elif time == "sa": append Reaction(np.array(time_array), np.array(cpm_array),
\* float(cpm), aa_conc); the arguments are evaluated left to right.
OnSa_reset(st, cpm) ==
    IF ~st.bound THEN Raise(st, "UnboundLocalError")
    ELSE IF ~IsNumeric(cpm) THEN Raise(st, "ValueError")
    ELSE [st EXCEPT !.rxns = Append(@, Reaction(st.time_array, st.cpm_array,
                                                  Float(cpm), st.aa_conc)),
                    !.time_array = <<>>, !.cpm_array = <<>>]

OnSa(st, cpm) ==
    IF ~st.bound THEN Raise(st, "UnboundLocalError")
    ELSE IF ~IsNumeric(cpm) THEN Raise(st, "ValueError")
    ELSE [st EXCEPT !.rxns = Append(@, Reaction(st.time_array, st.cpm_array,
                                                  Float(cpm), st.aa_conc))]

\* else: time_array.append(float(time)); cpm_array.append(float(cpm)).
\* The name time_array is looked up before float(time) is evaluated.
OnData(st, time, cpm) ==
    IF ~st.bound THEN Raise(st, "UnboundLocalError")
    ELSE IF ~IsNumeric(time) THEN Raise(st, "ValueError")
    ELSE IF ~IsNumeric(cpm)
         THEN Raise([st EXCEPT !.time_array = Append(@, Float(time))], "ValueError")
    ELSE [st EXCEPT !.time_array = Append(@, Float(time)),
                    !.cpm_array = Append(@, Float(cpm))]

Dispatch(st, entries) ==
    LET time == entries[1]
        cpm  == entries[2]
    IN  IF time = "conc" THEN OnConc(st, cpm)
        ELSE IF time = "sa" THEN OnSa(st, cpm)
        ELSE OnData(st, time, cpm)

\* One iteration of the loop over ifile.readlines(): entries[0] and entries[1]
\* raise IndexError on a line with fewer than two tokens.
ParseLine_skipshort(st, entries) ==
    IF Len(entries) < 2 THEN st ELSE Dispatch(st, entries)

ParseLine(st, entries) ==
    IF Len(entries) < 2 THEN Raise(st, "IndexError") ELSE Dispatch(st, entries)

-----------------------------------------------------------------------------
(* fit *)

AllFinite(arr) == \A i \in 1..Len(arr) : IsFinite(arr[i])

FitResult(conc_arr, time_arr) ==
    [fitted |-> TRUE, conc |-> conc_arr, time |-> time_arr]

\* fit(conc_array, time_array): the outcomes scipy.optimize.curve_fit and
\* scipy.stats.linregress can produce.  curve_fit checks its input for nan/inf
\* (ValueError), refuses fewer data points than parameters (TypeError, or
\* ValueError for an empty series depending on the scipy build), and otherwise
\* either converges or raises RuntimeError.  The numeric values of the result
\* are kept symbolic: the fit of (conc_arr, time_arr).
fit(conc_arr, time_arr) ==
    IF ~AllFinite(conc_arr) \/ ~AllFinite(time_arr)
    THEN {[err |-> "ValueError", pars |-> NoFit, r2 |-> NoFit]}
    ELSE IF Len(conc_arr) = 0
    THEN {[err |-> "ValueError", pars |-> NoFit, r2 |-> NoFit],
          [err |-> "TypeError", pars |-> NoFit, r2 |-> NoFit]}
    ELSE IF Len(conc_arr) < NumParams
    THEN {[err |-> "TypeError", pars |-> NoFit, r2 |-> NoFit]}
    ELSE {[err |-> "none", pars |-> FitResult(conc_arr, time_arr),
           r2 |-> FitResult(conc_arr, time_arr)],
          [err |-> "RuntimeError", pars |-> NoFit, r2 |-> NoFit]}

\* Reaction.fit_plateau: calc_conc, then fit; returns the outcomes as
\* [err, rxn] (rxn is the Reaction as the call leaves it).
fit_plateau(rxn) ==
    IF Len(rxn.cpm_array) = 0
    THEN {[err |-> "IndexError", rxn |-> rxn]}
    ELSE LET c == calc_conc(rxn)
         IN  { [err |-> o.err,
                rxn |-> IF o.err = "none"
                        THEN [c EXCEPT !.pars = o.pars, !.r2 = o.r2]
                        ELSE c] : o \in fit(c.conc_array, c.time_array) }

-----------------------------------------------------------------------------
(* plot_multiple_fit: aggregation *)

\* np.reshape(concat_conc_array, [num_rxns, num_data_points]) succeeds only on
\* rows of one common length, num_data_points = len(rxns[0].time_array): numpy
\* refuses to build an array from ragged rows (ValueError).  There is no check
\* of the lengths before this call.
Reshapable(rs) == \A i \in 1..Len(rs) : Len(rs[i].conc_array) = Len(rs[1].time_array)

Column(m, j) == [i \in 1..Len(m) |-> m[i][j]]

\* np.average(conc_matrix, axis=0)
Average(m) ==
    [j \in 1..Len(m[1]) |-> FDiv(FSum(Column(m, j)), R(Len(m)))]

\* np.std(conc_matrix, axis=0): the square root of the population variance
\* (ddof = 0), kept as its radicand.
Std(m) ==
    [j \in 1..Len(m[1]) |->
        LET col == Column(m, j)
            mu  == FDiv(FSum(col), R(Len(m)))
            sq  == [i \in 1..Len(col) |-> FMul(FSub(col[i], mu), FSub(col[i], mu))]
        IN  [sqrt_of |-> FDiv(FSum(sq), R(Len(m)))]]

-----------------------------------------------------------------------------
(* main *)

Init ==
    /\ pc = "read_data"
    /\ file = <<>>
    /\ bound = ParserInit.bound
    /\ time_array = ParserInit.time_array
    /\ cpm_array = ParserInit.cpm_array
    /\ aa_conc = ParserInit.aa_conc
    /\ rxns = ParserInit.rxns
    /\ idx = 1
    /\ conc_matrix = <<>>
    /\ ave_conc_array = <<>>
    /\ std_conc_array = <<>>
    /\ ave_pars = NoFit
    /\ err = "none"
    /\ errAt = "none"
    /\ figs = {}
    /\ convWrites = <<>>
    /\ fitWrites = <<>>

ParserState ==
    [ bound |-> bound, time_array |-> time_array, cpm_array |-> cpm_array,
      aa_conc |-> aa_conc, rxns |-> rxns, err |-> "none" ]

AggUnchanged == UNCHANGED <<conc_matrix, ave_conc_array, std_conc_array, ave_pars, figs>>

ParserUnchanged == UNCHANGED <<file, bound, time_array, cpm_array, aa_conc>>

\* read_data, one line of the file.
ReadLine(entries) ==
    /\ pc = "read_data"
    /\ Len(file) < MaxLines
    /\ LET st == ParseLine(ParserState, entries)
       IN  /\ file' = Append(file, entries)
           /\ bound' = st.bound
           /\ time_array' = st.time_array
           /\ cpm_array' = st.cpm_array
           /\ aa_conc' = st.aa_conc
           /\ rxns' = st.rxns
           /\ convWrites' = [i \in 1..Len(st.rxns) |->
                                IF i <= Len(convWrites) THEN convWrites[i] ELSE 0]
           /\ fitWrites' = [i \in 1..Len(st.rxns) |->
                                IF i <= Len(fitWrites) THEN fitWrites[i] ELSE 0]
           /\ err' = st.err
           /\ errAt' = IF st.err = "none" THEN "none" ELSE "read_data"
           /\ pc' = IF st.err = "none" THEN "read_data" ELSE "aborted"
    /\ UNCHANGED idx
    /\ AggUnchanged

\* read_data: the file is exhausted, "return rxns"; main enters its loop.
EndOfFile ==
    /\ pc = "read_data"
    /\ pc' = "calc_conc"
    /\ idx' = 1
    /\ UNCHANGED <<rxns, err, errAt, convWrites, fitWrites>>
    /\ ParserUnchanged
    /\ AggUnchanged

\* main: "for rxn in rxns: rxn.calc_conc()", one iteration.
\* cpm_array[0] raises IndexError on an empty array.
CalcConcStep ==
    /\ pc = "calc_conc"
    /\ idx <= Len(rxns)
    /\ IF Len(rxns[idx].cpm_array) = 0
       THEN /\ err' = "IndexError"
            /\ errAt' = "calc_conc"
            /\ pc' = "aborted"
            /\ UNCHANGED <<rxns, idx, convWrites>>
       ELSE /\ rxns' = [rxns EXCEPT ![idx] = calc_conc(@)]
            /\ convWrites' = [convWrites EXCEPT ![idx] = @ + 1]
            /\ idx' = idx + 1
            /\ UNCHANGED <<pc, err, errAt>>
    /\ UNCHANGED fitWrites
    /\ ParserUnchanged
    /\ AggUnchanged

\* plot_multiple_fit, up to the reshape: rxns[0] raises IndexError on an empty
\* list; np.reshape raises ValueError on rows that do not fill
\* [num_rxns, num_data_points].
Reshape ==
    /\ pc = "calc_conc"
    /\ idx > Len(rxns)
    /\ IF Len(rxns) = 0
       THEN /\ err' = "IndexError"
            /\ errAt' = "plot_multiple_fit"
            /\ pc' = "aborted"
            /\ UNCHANGED conc_matrix
       ELSE IF ~Reshapable(rxns)
       THEN /\ err' = "ValueError"
            /\ errAt' = "reshape"
            /\ pc' = "aborted"
            /\ UNCHANGED conc_matrix
       ELSE /\ conc_matrix' = [i \in 1..Len(rxns) |-> rxns[i].conc_array]
            /\ pc' = "average"
            /\ UNCHANGED <<err, errAt>>
    /\ UNCHANGED <<rxns, idx, convWrites, fitWrites, ave_conc_array, std_conc_array,
                   ave_pars, figs>>
    /\ ParserUnchanged

\* plot_multiple_fit: np.average and np.std over the replicates.
AverageStd ==
    /\ pc = "average"
    /\ ave_conc_array' = Average(conc_matrix)
    /\ std_conc_array' = Std(conc_matrix)
    /\ pc' = "fit"
    /\ UNCHANGED <<rxns, idx, convWrites, fitWrites, conc_matrix, ave_pars, figs,
                   err, errAt>>
    /\ ParserUnchanged

\* What plot_multiple_fit does with an outcome of fit: an exception propagates.
AfterFit_swallow(o) ==
    /\ ave_pars' = o.pars
    /\ err' = o.err
    /\ errAt' = IF o.err = "none" THEN "none" ELSE "fit"
    /\ pc' = "savefig_eps"

AfterFit(o) ==
    /\ ave_pars' = o.pars
    /\ err' = o.err
    /\ errAt' = IF o.err = "none" THEN "none" ELSE "fit"
    /\ pc' = IF o.err = "none" THEN "savefig_eps" ELSE "aborted"

\* plot_multiple_fit: ave_pars, r2 = fit(ave_conc_array, time_array).
FitAverage ==
    /\ pc = "fit"
    /\ \E o \in fit(ave_conc_array, rxns[1].time_array) : AfterFit(o)
    /\ UNCHANGED <<rxns, idx, convWrites, fitWrites, conc_matrix, ave_conc_array,
                   std_conc_array, figs>>
    /\ ParserUnchanged

\* plot_multiple_fit: fig.savefig(fig_prefix + '.eps')
SaveEps ==
    /\ pc = "savefig_eps"
    /\ figs' = figs \cup {"eps"}
    /\ pc' = "savefig_svg"
    /\ UNCHANGED <<rxns, idx, convWrites, fitWrites, conc_matrix, ave_conc_array,
                   std_conc_array, ave_pars, err, errAt>>
    /\ ParserUnchanged

\* plot_multiple_fit: fig.savefig(fig_prefix + '.svg')
SaveSvg ==
    /\ pc = "savefig_svg"
    /\ figs' = figs \cup {"svg"}
    /\ pc' = "done"
    /\ UNCHANGED <<rxns, idx, convWrites, fitWrites, conc_matrix, ave_conc_array,
                   std_conc_array, ave_pars, err, errAt>>
    /\ ParserUnchanged

\* A caller fits one Reaction with Reaction.fit_plateau (main never does; the
\* method is the only per-replicate use of the fitter).  Each Reaction is fitted
\* at most once, between read_data and plot_multiple_fit.
FitPlateau(i) ==
    /\ pc = "calc_conc"
    /\ i \in 1..Len(rxns)
    /\ fitWrites[i] = 0
    /\ \E o \in fit_plateau(rxns[i]) :
          /\ rxns' = [rxns EXCEPT ![i] = o.rxn]
          /\ convWrites' = [convWrites EXCEPT ![i] =
                               IF o.err = "IndexError" THEN @ ELSE @ + 1]
          /\ fitWrites' = [fitWrites EXCEPT ![i] = IF o.err = "none" THEN @ + 1 ELSE @]
          /\ err' = o.err
          /\ errAt' = IF o.err = "none" THEN "none"
                      ELSE IF o.err = "IndexError" THEN "calc_conc" ELSE "fit"
          /\ pc' = IF o.err = "none" THEN pc ELSE "aborted"
    /\ UNCHANGED idx
    /\ ParserUnchanged
    /\ AggUnchanged

Next ==
    \/ \E entries \in Lines : ReadLine(entries)
    \/ EndOfFile
    \/ CalcConcStep
    \/ Reshape
    \/ AverageStd
    \/ FitAverage
    \/ SaveEps
    \/ SaveSvg

\* main as written.
Spec == Init /\ [][Next]_vars

NextLib ==
    \/ Next
    \/ \E i \in 1..MaxLines : FitPlateau(i)

\* main, with a caller that may also use Reaction.fit_plateau.
SpecLib == Init /\ [][NextLib]_vars

-----------------------------------------------------------------------------
(* Properties *)

Kind(entries) ==
    IF Len(entries) < 2 THEN "short"
    ELSE IF entries[1] = "conc" THEN "conc"
    ELSE IF entries[1] = "sa" THEN "sa"
    ELSE "data"

WellFormedLine(entries) ==
    /\ Len(entries) = 2
    /\ IsNumeric(entries[2])
    /\ Kind(entries) = "data" => IsNumeric(entries[1])

\* A sequence of blocks: conc, one or more data lines, sa.
WellFormed(f) ==
    /\ \A i \in 1..Len(f) : WellFormedLine(f[i])
    /\ f # <<>> => Kind(f[1]) = "conc" /\ Kind(f[Len(f)]) = "sa"
    /\ \A i \in 1..(Len(f) - 1) :
          <<Kind(f[i]), Kind(f[i + 1])>> \in
              { <<"conc", "data">>, <<"data", "data">>,
                <<"data", "sa">>, <<"sa", "conc">> }

LinesOfKind(f, k) == {i \in 1..Len(f) : Kind(f[i]) = k}

\* The k-th smallest element of a set of line numbers.
Nth(S, k) == CHOOSE x \in S : Cardinality({y \in S : y <= x}) = k

\* Tokens 1 (times) or 2 (signals) of the lines a+1 .. b-1 of f, as floats.
Between(f, a, b, tok) == [j \in 1..(b - a - 1) |-> Float(f[a + j][tok])]

Positive(a) == a.n > 0 /\ a.d > 0

\* C1: for every well-formed input read_data returns one Reaction per block, in
\* block order, the k-th with the times and signals of the k-th block's data
\* lines in file order, the block's sa value and the block's conc value.
C1_OneReplicatePerBlock ==
    (pc # "read_data" /\ WellFormed(file)) =>
        /\ errAt # "read_data"
        /\ Len(rxns) = Cardinality(LinesOfKind(file, "conc"))
        /\ \A k \in 1..Len(rxns) :
              LET c == Nth(LinesOfKind(file, "conc"), k)
                  s == Nth(LinesOfKind(file, "sa"), k)
              IN  /\ rxns[k].time_array = Between(file, c, s, 1)
                  /\ rxns[k].cpm_array = Between(file, c, s, 2)
                  /\ rxns[k].sa = Float(file[s][2])
                  /\ rxns[k].aa_conc = Float(file[c][2])

C1_Witness ==
    /\ pc = "calc_conc"
    /\ WellFormed(file)
    /\ Len(rxns) = 2
    /\ rxns[1].cpm_array # rxns[2].cpm_array
    /\ rxns[1].aa_conc # rxns[2].aa_conc

\* An sa line with no data line before it in its block: the first line of the
\* file, or right after a conc line.
SaWithoutData(f) ==
    \E i \in 1..Len(f) :
        /\ Kind(f[i]) = "sa"
        /\ i = 1 \/ Kind(f[i - 1]) = "conc"

\* C2: when the parser reaches an sa line with no preceding data line in the
\* current block, parsing fails, and no Reaction with empty times / signals is
\* ever appended to the output.
C2_EmptyReplicateRejected ==
    /\ SaWithoutData(file) => pc = "aborted" /\ errAt = "read_data"
    /\ \A i \in 1..Len(rxns) : rxns[i].time_array # <<>> /\ rxns[i].cpm_array # <<>>

\* C3: a line with fewer than two tokens (a blank line included), at whatever
\* position, makes read_data fail with IndexError at that line: it is the last
\* line consumed and read_data returns nothing to main.
C3_ShortLineFails ==
    \A i \in 1..Len(file) :
        Len(file[i]) < 2 =>
            /\ i = Len(file)
            /\ pc = "aborted"
            /\ err = "IndexError"
            /\ errAt = "read_data"
            /\ idx = 1
            /\ \A k \in 1..Len(rxns) : convWrites[k] = 0

C3_Witness ==
    /\ Len(file) >= 4
    /\ file[Len(file)] = <<>>
    /\ Len(rxns) >= 1
    /\ pc = "aborted"
    /\ err = "IndexError"

MismatchedTimes ==
    \E i, j \in 1..Len(rxns) : Len(rxns[i].time_array) # Len(rxns[j].time_array)

\* plot_multiple_fit has been entered.
AggregatorEntered ==
    \/ pc \in {"average", "fit", "savefig_eps", "savefig_svg", "done"}
    \/ pc = "aborted" /\ errAt \in {"plot_multiple_fit", "reshape", "fit"}

\* C4: on Reactions whose times differ in length the aggregator fails, the
\* failure comes from a validation made before any reshaping, averaging or
\* standard deviation, and no mean / std series is produced.
C4_ValidatedBeforeReshape ==
    (AggregatorEntered /\ MismatchedTimes) =>
        /\ pc = "aborted"
        /\ errAt \notin {"reshape", "average", "fit"}
        /\ ave_conc_array = <<>>
        /\ std_conc_array = <<>>

\* C5: a failure in parsing, conversion, aggregation or fitting ends the run
\* before any figure is written; figures are written only after every earlier
\* stage succeeded.
C5_NoOutputAfterFailure ==
    /\ err # "none" => figs = {} /\ pc = "aborted"
    /\ figs # {} =>
          /\ pc \in {"savefig_svg", "done"}
          /\ ave_pars.fitted
          /\ \A i \in 1..Len(rxns) : convWrites[i] >= 1

C5_Witness ==
    /\ pc = "aborted"
    /\ errAt = "fit"
    /\ err = "RuntimeError"
    /\ ave_conc_array # <<>>
    /\ figs = {}

\* C6: after calc_conc on a Reaction with sa > 0 and aa_conc > 0, the first
\* concentration and the first normalized signal are 0, whatever cpm_array[0]
\* and time_array[0] are.
C6_BaselineZero ==
    \A i \in 1..Len(rxns) :
        (convWrites[i] >= 1 /\ Positive(rxns[i].sa) /\ Positive(rxns[i].aa_conc)) =>
            /\ rxns[i].conc_array[1] = R(0)
            /\ rxns[i].normalized_cpm_array[1] = R(0)

C6_Witness ==
    \E i \in 1..Len(rxns) :
        /\ convWrites[i] >= 1
        /\ Positive(rxns[i].sa)
        /\ Positive(rxns[i].aa_conc)
        /\ rxns[i].cpm_array[1] # R(0)
        /\ rxns[i].time_array[1] # R(0)
        /\ Len(rxns[i].conc_array) >= 2
        /\ rxns[i].conc_array[2] # R(0)

\* C7: calc_conc is idempotent: a call on a Reaction that was already converted
\* leaves normalized_cpm_array and conc_array as the first call set them, and no
\* call changes cpm_array, time_array, sa or aa_conc.
C7_Idempotent ==
    [][\A i \in 1..Len(rxns) :
          /\ i <= Len(rxns')
          /\ rxns'[i].cpm_array = rxns[i].cpm_array
          /\ rxns'[i].time_array = rxns[i].time_array
          /\ rxns'[i].sa = rxns[i].sa
          /\ rxns'[i].aa_conc = rxns[i].aa_conc
          /\ (convWrites[i] >= 1 /\ convWrites'[i] > convWrites[i]) =>
                /\ rxns'[i].normalized_cpm_array = rxns[i].normalized_cpm_array
                /\ rxns'[i].conc_array = rxns[i].conc_array]_vars

C7_Witness ==
    \E i \in 1..Len(rxns) :
        /\ convWrites[i] = 2
        /\ rxns[i].cpm_array[1] # R(0)
        /\ \E j \in 1..Len(rxns[i].conc_array) : rxns[i].conc_array[j] # R(0)

\* C8: the fitter returns no result for a series of fewer than 3 points.
C8_RejectsFewerThanThree ==
    /\ ave_pars.fitted => Len(ave_pars.conc) >= 3
    /\ \A i \in 1..Len(rxns) : rxns[i].pars.fitted => Len(rxns[i].pars.conc) >= 3

\* The Reaction an sa line at line i of the file produced.
RxnOfLine(i) == rxns[Cardinality({j \in 1..i : Kind(file[j]) = "sa"})]

\* The lines of the file read_data processed without raising.
Parsed == IF errAt = "read_data" THEN 1..(Len(file) - 1) ELSE 1..Len(file)

C9_Carryover ==
    \A i, j \in Parsed :
        (/\ i < j
         /\ Kind(file[i]) = "sa"
         /\ Kind(file[j]) = "sa"
         /\ \A m \in (i + 1)..(j - 1) : Kind(file[m]) = "data") =>
            /\ RxnOfLine(j).time_array = RxnOfLine(i).time_array \o Between(file, i, j, 1)
            /\ RxnOfLine(j).cpm_array = RxnOfLine(i).cpm_array \o Between(file, i, j, 2)
            /\ RxnOfLine(j).aa_conc = RxnOfLine(i).aa_conc
            /\ RxnOfLine(j).sa = Float(file[j][2])

C9_Step ==
    (pc = "read_data" /\ pc' = "read_data" /\ Len(file') = Len(file) + 1) =>
        LET entries == file'[Len(file')]
        IN  /\ Kind(entries) = "sa" =>
                  /\ time_array' = time_array
                  /\ cpm_array' = cpm_array
                  /\ aa_conc' = aa_conc
                  /\ rxns' = Append(rxns, Reaction(time_array, cpm_array,
                                                   Float(entries[2]), aa_conc))
            /\ Kind(entries) = "data" =>
                  /\ time_array' = Append(time_array, Float(entries[1]))
                  /\ cpm_array' = Append(cpm_array, Float(entries[2]))
                  /\ aa_conc' = aa_conc
            /\ Kind(entries) = "conc" =>
                  /\ time_array' = <<>>
                  /\ cpm_array' = <<>>

\* C9: an sa line leaves the accumulation buffers and aa_conc unchanged and only
\* a conc line resets them; so of two sa lines with no conc between them the
\* second Reaction has the first one's points followed by the data lines in
\* between (none, for consecutive sa lines), the same aa_conc, and its own sa.
C9_SaKeepsBuffers == []C9_Carryover /\ [][C9_Step]_vars

C9_Witness ==
    /\ Len(file) >= 5
    /\ Kind(file[3]) = "sa"
    /\ Kind(file[4]) = "sa"
    /\ Kind(file[5]) = "data"
    /\ Len(rxns) = 3
    /\ rxns[1].time_array # <<>>
    /\ rxns[2].time_array = rxns[1].time_array
    /\ rxns[2].sa # rxns[1].sa
    /\ Len(rxns[3].time_array) > Len(rxns[2].time_array)

C10_State ==
    \A i \in 1..Len(rxns) :
        /\ fitWrites[i] <= 1
        /\ convWrites[i] <= 1 + fitWrites[i] \/ pc = "aborted"
        /\ convWrites[i] <= 2
        /\ rxns[i].pars.fitted <=> fitWrites[i] = 1
        /\ rxns[i].r2.fitted <=> fitWrites[i] = 1
        /\ fitWrites[i] = 1 =>
              /\ convWrites[i] >= 1
              /\ rxns[i].pars.conc = rxns[i].conc_array
        /\ convWrites[i] = 0 =>
              /\ rxns[i].conc_array = <<>>
              /\ rxns[i].normalized_cpm_array = <<>>

C10_Step ==
    \A i \in 1..Len(rxns) :
        /\ i <= Len(rxns')
        /\ rxns'[i].cpm_array = rxns[i].cpm_array
        /\ rxns'[i].time_array = rxns[i].time_array
        /\ rxns'[i].sa = rxns[i].sa
        /\ rxns'[i].aa_conc = rxns[i].aa_conc
        /\ convWrites[i] >= 1 =>
              /\ rxns'[i].normalized_cpm_array = rxns[i].normalized_cpm_array
              /\ rxns'[i].conc_array = rxns[i].conc_array
        /\ fitWrites[i] >= 1 =>
              /\ rxns'[i].pars = rxns[i].pars
              /\ rxns'[i].r2 = rxns[i].r2
        /\ rxns'[i] # rxns[i] => pc = "calc_conc"
        /\ fitWrites'[i] > fitWrites[i] => convWrites'[i] > convWrites[i]

====
